---- MODULE Spec2Model ----
(***************************************************************************)
(* The data-export workflow of the MDM MCP server: the three export tools  *)
(* (create_data_export, get_data_export, download_data_export), the        *)
(* DataExportService behind them, the DataMSAdapter calls they make and    *)
(* the remote job registry those calls observe.                            *)
(*                                                                         *)
(* Python dicts are records (functions over strings); "k in d" is          *)
(* k \in DOMAIN d.  f-strings are sequences of their pieces, so that a     *)
(* message "contains" a value when the value is one of its pieces.         *)
(***************************************************************************)
EXTENDS Integers, Sequences, FiniteSets, TLC

VARIABLES export_service, phase, last, disk, constructed, polls, script, threads

vars == <<export_service, phase, last, disk, constructed, polls, script, threads>>

\* the callers other than the single caller of one call at a time: the
\* poller's count, the manual script and the overlapping invocations
callers == <<polls, script, threads>>

(***************************************************************************)
(* Bounds of the model.                                                    *)
(***************************************************************************)
MaxJobs == 1

JobNames == <<"job-1", "job-2", "job-3", "job-4">>

JobIds == {JobNames[i] : i \in 1..MaxJobs}

\* an export id no remote job has
UnknownId == "no-such-job"

ExportIds == JobIds \cup {UnknownId}

(***************************************************************************)
(* Python values.                                                          *)
(***************************************************************************)
None == "<None>"

Get(d, k, default) == IF k \in DOMAIN d THEN d[k] ELSE default

Restrict(d, keys) == [k \in (DOMAIN d) \cap keys |-> d[k]]

Without(d, keys) == [k \in (DOMAIN d) \ keys |-> d[k]]

Contains(message, piece) == \E i \in 1..Len(message) : message[i] = piece

(***************************************************************************)
(* The remote job lifecycle (remote-owned; the client only observes it).   *)
(***************************************************************************)
RunningClass == {"not_started", "prep", "queued", "running"}

SuccessClass == {"succeeded"}

FailureClass == {"failed", "canceled"}

KnownStatuses == RunningClass \cup SuccessClass \cup FailureClass

NoJob == "none"

NextPhases(p) ==
    CASE p = "not_started" -> {"prep"}
      [] p = "prep" -> {"queued"}
      [] p = "queued" -> {"running"}
      [] p = "running" -> {"succeeded", "failed", "canceled"}
      [] OTHER -> {}

\* status strings a descriptor can carry that the client does not know
\* ("unknown" is listed by the adapter's own documentation)
OddStatuses == {"unknown", "SUCCEEDED"}

\* how a descriptor renders the status: the job's phase, an unrecognized
\* string, or no status field at all
Absent == "<absent>"

StatusForms == {"phase", Absent} \cup OddStatuses

\* fields a descriptor may leave out
OmittedChoices == {{}, {"file_name"}, {"job_type", "export_type", "file_name", "file_expired"}}

JobDescriptor(j, p, form, omitted) ==
    LET full == [job_id |-> j, job_type |-> "export",
                 status |-> IF form = "phase" THEN p ELSE form,
                 export_type |-> "entity", file_name |-> j, file_expired |-> FALSE]
    IN Without(full, omitted \cup (IF form = Absent THEN {"status"} ELSE {}))

(***************************************************************************)
(* HTTP exchange with the remote API.                                      *)
(***************************************************************************)
NoResponse == [kind |-> "none"]

OkJson(d) == [kind |-> "ok", status_code |-> 200, json |-> d]

HttpError(code, text) == [kind |-> "http", status_code |-> code, text |-> text]

NetworkFailure == [kind |-> "netfail"]

ServerErrors == {HttpError(500, "Internal Server Error"),
                 HttpError(503, "export_in_progress")}

NotFound == HttpError(404, "Export not found")

\* what the remote can answer to GET data_exports/{export_id}
GetResponses(export_id) ==
    IF export_id \in DOMAIN phase /\ phase[export_id] # NoJob
    THEN {OkJson(JobDescriptor(export_id, phase[export_id], f, o)) :
              f \in StatusForms, o \in OmittedChoices}
         \cup ServerErrors \cup {NetworkFailure}
    ELSE {NotFound, NetworkFailure}

(***************************************************************************)
(* Calls that may raise: a call either returns a value or raises an        *)
(* exception object.                                                       *)
(***************************************************************************)
Returns(v) == [raised |-> FALSE, value |-> v]

Raises(e) == [raised |-> TRUE, exc |-> e]

\* requests.exceptions.RequestException; `response` is the HTTP response it
\* carries, NoResponse when the request never got one
RequestException(text, response) ==
    [type |-> "RequestException", str |-> text, response |-> response]

(***************************************************************************)
(* Collaborators outside the export package: tenant/session validation,    *)
(* the base adapter's HTTP execution and the base service's error shaping. *)
(***************************************************************************)
DefaultCrn == "crn:default"

GoodCrn == "crn:tenant-a"

BadCrn == "not-a-crn"

CrnArgs == {None, GoodCrn, BadCrn}

\* explicit argument > session-bound value > configured default; a malformed
\* CRN fails with an already formatted (structured) validation error
validate_session_and_crn(crn) ==
    IF crn = BadCrn
    THEN Raises([type |-> "CRNValidationError",
                 args |-> <<[error |-> "ValidationError", status_code |-> 400,
                             message |-> <<"Invalid CRN: ", crn>>]>>])
    ELSE Returns([session_id |-> "session", tenant_id |-> "tenant",
                  validated_crn |-> IF crn = None THEN DefaultCrn ELSE crn])

\* BaseMDMAdapter.execute_get: JSON of a 2xx answer, a request exception
\* carrying the response on a non-2xx answer, one without a response when
\* the network failed
execute_get(response) ==
    CASE response.kind = "ok" -> Returns(response.json)
      [] response.kind = "http" ->
            Raises(RequestException(<<"HTTP error">>, response))
      [] OTHER -> Raises(RequestException(<<"connection failed">>, NoResponse))

\* BaseService.handle_api_error: the response's status code, 500 without one
handle_api_error(e, operation) ==
    [error |-> "APIError",
     status_code |-> IF e.response.kind = "http" THEN e.response.status_code ELSE 500,
     message |-> <<"Failed to ", operation>>,
     details |-> IF e.response.kind = "http"
                 THEN [response_body |-> e.response.text]
                 ELSE [original_error |-> e.str]]

\* BaseService.handle_unexpected_error
handle_unexpected_error(e, operation) ==
    [error |-> "InternalError", status_code |-> 500,
     message |-> <<"Unexpected error: ", operation>>]

\* BaseMDMAdapter._execute_request_with_retry: what goes on the wire for
\* one request handed to it.  The create POST is not idempotent and is
\* issued once per attempt; a failure is handed back to the caller.
_execute_request_with_retry(request) == <<request>>

(***************************************************************************)
(* HTTP requests the client issues.                                        *)
(***************************************************************************)
Request(method, endpoint, params, body) ==
    [method |-> method, endpoint |-> endpoint, params |-> params, body |-> body]

NoBody == [nobody |-> TRUE]

(***************************************************************************)
(* DataMSAdapter.get_data_export and DataExportService.get_export.         *)
(***************************************************************************)
GetRequest(export_id, crn) ==
    Request("GET", <<"data_exports", export_id>>, [crn |-> crn], NoBody)

adapter_get_data_export(export_id, crn, response) == execute_get(response)

\* mutant: the validation error's own dict is dropped for the fallback
CrnErrorResult_Fallback(e) ==
    [error |-> <<"CRNValidationError">>, status_code |-> 400]

\* the dict a caught CRNValidationError turns into
CrnErrorResult(e) ==
    IF Len(e.args) > 0 THEN e.args[1]
    ELSE [error |-> <<"CRNValidationError">>, status_code |-> 400]

\* the requests get_export sends (none when validation fails)
get_export_sent(export_id, crn) ==
    LET v == validate_session_and_crn(crn)
    IN IF v.raised THEN <<>> ELSE <<GetRequest(export_id, v.value.validated_crn)>>

get_export(export_id, crn, response) ==
    LET v == validate_session_and_crn(crn)
    IN IF v.raised THEN CrnErrorResult(v.exc)
       ELSE LET r == adapter_get_data_export(export_id, v.value.validated_crn, response)
            IN IF r.raised
               THEN handle_api_error(r.exc, <<"get export ", export_id>>)
               ELSE r.value

(***************************************************************************)
(* The pydantic response models of tool_models.py.  Constructing a model   *)
(* from a dict raises ValidationError when a required field is missing,    *)
(* drops undeclared keys and fills absent optional fields with None.       *)
(***************************************************************************)
RequiredFields(model) ==
    CASE model = "GetDataExportResponse" ->
            {"job_id", "job_type", "status", "export_type", "file_name", "file_expired"}
      [] model = "DataExportErrorResponse" -> {"error", "status_code", "message"}
      [] model = "DownloadDataExportResponse" -> {"export_id"}
      [] OTHER -> {}

OptionalFields(model) ==
    CASE model = "GetDataExportResponse" ->
            {"search_criteria", "start_time", "end_time", "process_ids",
             "additional_info", "record_count"}
      [] model = "DataExportErrorResponse" -> {"details"}
      [] model = "DownloadDataExportResponse" ->
            {"file_name", "content_type", "file_size", "file_content_base64",
             "file_path", "status", "message"}
      [] model = "ExportJobResponse" ->
            {"job_id", "id", "job_name", "job_type", "status", "export_type",
             "file_name", "file_expired", "start_time", "end_time", "process_ids",
             "search_criteria", "additional_info"}
      [] OTHER -> {}

Construct(model, d) ==
    IF RequiredFields(model) \subseteq DOMAIN d
    THEN Returns([model |-> model,
                  fields |-> [f \in RequiredFields(model) \cup OptionalFields(model)
                                  |-> Get(d, f, None)]])
    ELSE Raises([type |-> "ValidationError",
                 missing |-> RequiredFields(model) \ DOMAIN d])

(***************************************************************************)
(* tools.get_data_export.                                                  *)
(***************************************************************************)
\* mutant: only API errors are taken for service errors
IsServiceError_OnlyApi(result) == "error" \in DOMAIN result /\ result.error = "APIError"

IsServiceError(result) == "error" \in DOMAIN result

StatusOf(result) == Get(result, "status", "unknown")

\* mutant: the comparison ignores case
IsSucceeded_AnyCase(status) == status \in {"succeeded", "SUCCEEDED"}

IsSucceeded(status) == status = "succeeded"

\* mutant: a canceled job is not taken for a failure
IsFailed_OnlyFailed(status) == status = "failed"

\* mutant: a running job is taken for a failure too
IsFailed_AlsoRunning(status) == status \in {"failed", "canceled", "running"}

IsFailed(status) == status \in {"failed", "canceled"}

\* mutant: the terminal failure is reported with the retry-later code
ExportFailedResponse_202(export_id, status, result) ==
    [error |-> "ExportFailed", status_code |-> 202,
     message |-> <<"Export job ", export_id, " ", status, ".">>,
     details |-> [export_id |-> export_id, status |-> status,
                  job_id |-> Get(result, "job_id", None)]]

ExportFailedResponse(export_id, status, result) ==
    [error |-> "ExportFailed", status_code |-> 400,
     message |-> <<"Export job ", export_id, " ", status, ".">>,
     details |-> [export_id |-> export_id, status |-> status,
                  job_id |-> Get(result, "job_id", None)]]

\* mutant: the message leaves the observed status out
ExportNotReadyResponse_NoStatus(export_id, status, result) ==
    [error |-> "ExportNotReady", status_code |-> 202,
     message |-> <<"Export job ", export_id, " is not ready. Please wait and retry.">>,
     details |-> [export_id |-> export_id, status |-> status,
                  job_id |-> Get(result, "job_id", None)]]

ExportNotReadyResponse(export_id, status, result) ==
    [error |-> "ExportNotReady", status_code |-> 202,
     message |-> <<"Export job ", export_id, " is not ready. Status: ", status,
                   ". Please wait and retry.">>,
     details |-> [export_id |-> export_id, status |-> status,
                  job_id |-> Get(result, "job_id", None)]]

\* the tool's outcome for the dict `result` the service returned
get_data_export(export_id, result) ==
    IF IsServiceError(result) THEN Construct("DataExportErrorResponse", result)
    ELSE LET status == StatusOf(result)
         IN IF IsSucceeded(status) THEN Construct("GetDataExportResponse", result)
            ELSE IF IsFailed(status)
            THEN Construct("DataExportErrorResponse",
                           ExportFailedResponse(export_id, status, result))
            ELSE Construct("DataExportErrorResponse",
                           ExportNotReadyResponse(export_id, status, result))

(***************************************************************************)
(* Python strings whose characters matter (export_type is trimmed and      *)
(* lower-cased) are sequences of characters.                               *)
(***************************************************************************)
UpperChars == <<"A", "B", "C", "D", "E", "F", "G", "H", "I", "J", "K", "L", "M",
                "N", "O", "P", "Q", "R", "S", "T", "U", "V", "W", "X", "Y", "Z">>

LowerChars == <<"a", "b", "c", "d", "e", "f", "g", "h", "i", "j", "k", "l", "m",
                "n", "o", "p", "q", "r", "s", "t", "u", "v", "w", "x", "y", "z">>

Whitespace == {" ", "\t", "\n"}

LowerChar(c) ==
    IF \E i \in 1..Len(UpperChars) : UpperChars[i] = c
    THEN LowerChars[CHOOSE i \in 1..Len(UpperChars) : UpperChars[i] = c]
    ELSE c

\* str.lower
Lower(str) == [i \in 1..Len(str) |-> LowerChar(str[i])]

RECURSIVE LStrip(_)
LStrip(str) ==
    IF str # <<>> /\ Head(str) \in Whitespace THEN LStrip(Tail(str)) ELSE str

RECURSIVE RStrip(_)
RStrip(str) ==
    IF str # <<>> /\ str[Len(str)] \in Whitespace
    THEN RStrip(SubSeq(str, 1, Len(str) - 1))
    ELSE str

\* str.strip
Strip(str) == RStrip(LStrip(str))

Entity == <<"e", "n", "t", "i", "t", "y">>

Record == <<"r", "e", "c", "o", "r", "d">>

\* the None passed where a character string is expected
NoneStr == <<None>>

(***************************************************************************)
(* DataExportService._build_hardcoded_payload and create_export.           *)
(***************************************************************************)
\* mutant: the filter selects entities whatever the export type
_build_hardcoded_payload_EntityFilter(export_type, file_format) ==
    LET isRecord == export_type = Record
        search_type == IF isRecord THEN Record ELSE Entity
    IN [export_type |-> export_type,
        format |-> file_format,
        search_criteria |->
            [search_type |-> search_type,
             query |-> [operation |-> "and",
                        expressions |-> <<[value |-> "*"]>>],
             filters |-> <<[type |-> Entity, values |-> <<"creditentity">>]>>]]

_build_hardcoded_payload(export_type, file_format) ==
    LET isRecord == export_type = Record
        search_type == IF isRecord THEN Record ELSE Entity
        filter_type == IF isRecord THEN Record ELSE Entity
        filter_value == IF isRecord THEN "creditrecord" ELSE "creditentity"
    IN [export_type |-> export_type,
        format |-> file_format,
        search_criteria |->
            [search_type |-> search_type,
             query |-> [operation |-> "and",
                        expressions |-> <<[value |-> "*"]>>],
             filters |-> <<[type |-> filter_type, values |-> <<filter_value>>]>>]]

\* mutant: the export type is trimmed but not lower-cased
NormalizeExportType_NoLower(export_type) ==
    LET normalized == IF export_type = NoneStr \/ Strip(export_type) = <<>>
                      THEN Entity
                      ELSE Strip(export_type)
    IN IF normalized \notin {Entity, Record} THEN Entity ELSE normalized

\* "Validate and normalize export_type" followed by "Ensure valid export_type"
NormalizeExportType(export_type) ==
    LET normalized == IF export_type = NoneStr \/ Strip(export_type) = <<>>
                      THEN Entity
                      ELSE Lower(Strip(export_type))
    IN IF normalized \notin {Entity, Record} THEN Entity ELSE normalized

\* Python truthiness of an Optional[str]
Truthy(str) == str # None /\ str # ""

\* mutant: compression_type is not put among the query parameters
CreateParams_CrnOnly(crn, compression_type) == [crn |-> crn]

CreateParams(crn, compression_type) ==
    IF Truthy(compression_type)
    THEN [crn |-> crn, compression_type |-> compression_type]
    ELSE [crn |-> crn]

CreateRequest(export_request, crn, compression_type) ==
    Request("POST", <<"data_exports">>, CreateParams(crn, compression_type),
            export_request)

\* mutant: the adapter hands the POST to the executor a second time
adapter_create_data_export_sent_Twice(export_request, crn, compression_type) ==
    _execute_request_with_retry(CreateRequest(export_request, crn, compression_type))
        \o _execute_request_with_retry(CreateRequest(export_request, crn, compression_type))

\* what DataMSAdapter.create_data_export puts on the wire: one call of the
\* executor with the POST
adapter_create_data_export_sent(export_request, crn, compression_type) ==
    _execute_request_with_retry(CreateRequest(export_request, crn, compression_type))

\* DataMSAdapter.create_data_export, given the response the POST gets
adapter_create_data_export(export_request, crn, compression_type, response) ==
    CASE response.kind = "netfail" ->
            Raises(RequestException(<<"connection failed">>, NoResponse))
      [] response.kind = "http" ->
            Raises([type |-> "HTTPError",
                    str |-> <<"HTTP error for url", response.text>>,
                    response |-> response,
                    response_text |-> response.text])
      [] OTHER -> Returns(response.json)

\* mutant: the response's body is not copied into the details
CreateApiError_NoBody(e) ==
    LET d0 == [original_error |-> e.str]
        d1 == IF "response_text" \in DOMAIN e /\ Truthy(e.response_text)
              THEN d0 @@ [mdm_response |-> e.response_text]
              ELSE d0
        d2 == IF e.response.kind = "http"
              THEN d1 @@ [status_code |-> e.response.status_code]
              ELSE d1
    IN [error |-> "APIError",
        status_code |-> Get(d2, "status_code", 500),
        message |-> <<"Failed to create export job: ", e.str>>,
        details |-> d2]

\* mutant: the response's status code is not taken over
CreateApiError_Always500(e) ==
    LET d0 == [original_error |-> e.str]
        d1 == IF "response_text" \in DOMAIN e /\ Truthy(e.response_text)
              THEN d0 @@ [mdm_response |-> e.response_text]
              ELSE d0
        d2 == IF e.response.kind = "http"
              THEN d1 @@ [response_body |-> e.response.text]
              ELSE d1
    IN [error |-> "APIError",
        status_code |-> Get(d2, "status_code", 500),
        message |-> <<"Failed to create export job: ", e.str>>,
        details |-> d2]

\* the except-RequestException branch of create_export
CreateApiError(e) ==
    LET d0 == [original_error |-> e.str]
        d1 == IF "response_text" \in DOMAIN e /\ Truthy(e.response_text)
              THEN d0 @@ [mdm_response |-> e.response_text]
              ELSE d0
        d2 == IF e.response.kind = "http"
              THEN d1 @@ [status_code |-> e.response.status_code,
                          response_body |-> e.response.text]
              ELSE d1
    IN [error |-> "APIError",
        status_code |-> Get(d2, "status_code", 500),
        message |-> <<"Failed to create export job: ", e.str>>,
        details |-> d2]

create_export_body(export_type, file_format) ==
    _build_hardcoded_payload(NormalizeExportType(export_type), file_format)

\* the requests create_export sends (none when validation fails)
create_export_sent(export_type, file_format, compression_type, crn) ==
    LET v == validate_session_and_crn(crn)
    IN IF v.raised THEN <<>>
       ELSE adapter_create_data_export_sent(
                create_export_body(export_type, file_format),
                v.value.validated_crn, compression_type)

create_export(export_type, file_format, compression_type, crn, response) ==
    LET v == validate_session_and_crn(crn)
    IN IF v.raised THEN CrnErrorResult(v.exc)
       ELSE LET r == adapter_create_data_export(
                         create_export_body(export_type, file_format),
                         v.value.validated_crn, compression_type, response)
            IN IF r.raised THEN CreateApiError(r.exc) ELSE r.value

(***************************************************************************)
(* tools.create_data_export.  The tool calls service.create_export with    *)
(* keyword arguments; Python binds them to the callee's parameters and     *)
(* raises TypeError for a keyword the callee does not declare.             *)
(***************************************************************************)
create_export_parameters == {"ctx", "export_type", "file_format", "compression_type", "crn"}

\* the keywords of the call at tools.py 72-78
ToolCreateKeywords(request) ==
    [ctx |-> "ctx",
     entity_type |-> request.entity_type,
     file_format |-> request.file_format,
     compression_type |-> request.compression_type,
     crn |-> request.crn]

\* binding a keyword call to create_export's signature and defaults
BindCreateExport(kwargs) ==
    IF DOMAIN kwargs \subseteq create_export_parameters
    THEN Returns([export_type |-> Get(kwargs, "export_type", Entity),
                  file_format |-> Get(kwargs, "file_format", "csv"),
                  compression_type |-> Get(kwargs, "compression_type", "zip"),
                  crn |-> Get(kwargs, "crn", None)])
    ELSE Raises([type |-> "TypeError",
                 unexpected |-> DOMAIN kwargs \ create_export_parameters])

\* CreateDataExportRequest() with no field set
DefaultCreateRequest ==
    [entity_type |-> "creditentity", file_format |-> "csv",
     compression_type |-> "zip", crn |-> None]

\* CreateDataExportRequest(**kwargs): the four fields are plain strings with
\* defaults and no validator restricts their values; pydantic ignores the
\* keywords the model does not declare
CreateDataExportRequest(kwargs) ==
    Returns([f \in DOMAIN DefaultCreateRequest |->
                 Get(kwargs, f, DefaultCreateRequest[f])])

create_data_export_sent(request) ==
    LET call == BindCreateExport(ToolCreateKeywords(request))
    IN IF call.raised THEN <<>>
       ELSE create_export_sent(call.value.export_type, call.value.file_format,
                               call.value.compression_type, call.value.crn)

\* the dict the tool gets from the service (NoCall when the call never ran)
NoCall == [nocall |-> TRUE]

create_data_export_service(request, response) ==
    LET call == BindCreateExport(ToolCreateKeywords(request))
    IN IF call.raised THEN NoCall
       ELSE create_export(call.value.export_type, call.value.file_format,
                          call.value.compression_type, call.value.crn, response)

create_data_export(request, response) ==
    LET call == BindCreateExport(ToolCreateKeywords(request))
        result == create_data_export_service(request, response)
    IN IF call.raised THEN Raises(call.exc)
       ELSE IF IsServiceError(result)
       THEN Construct("DataExportErrorResponse", result)
       ELSE Construct("ExportJobResponse", result)

\* create_export called with the caller's keywords: the arguments Python
\* binds, the defaults taking the place of the parameters not passed
CallArguments(kwargs) ==
    Without(kwargs, {"ctx"})
        @@ [export_type |-> Entity, file_format |-> "csv",
            compression_type |-> "zip", crn |-> None]

create_export_call_sent(kwargs) ==
    LET call == BindCreateExport(kwargs)
    IN IF call.raised THEN <<>>
       ELSE create_export_sent(call.value.export_type, call.value.file_format,
                               call.value.compression_type, call.value.crn)

create_export_call_service(kwargs, response) ==
    LET call == BindCreateExport(kwargs)
    IN IF call.raised THEN NoCall
       ELSE create_export(call.value.export_type, call.value.file_format,
                          call.value.compression_type, call.value.crn, response)

\* what the caller of create_export(**kwargs) gets: the service's dict, or
\* the TypeError of the call itself
create_export_call(kwargs, response) ==
    LET call == BindCreateExport(kwargs)
    IN IF call.raised THEN Raises(call.exc)
       ELSE Returns(create_export_call_service(kwargs, response))

(***************************************************************************)
(* DataMSAdapter.download_data_export: the file name from the              *)
(* content-disposition header, the payload in memory or on disk.           *)
(***************************************************************************)
FilenameKey == <<"f", "i", "l", "e", "n", "a", "m", "e", "=">>

\* [^";\s]
NameChar(c) == c \notin ({"\"", ";"} \cup Whitespace)

RECURSIVE NameRun(_, _)
\* the longest run of name characters of `str` starting at position k
NameRun(str, k) ==
    IF k <= Len(str) /\ NameChar(str[k])
    THEN <<str[k]>> \o NameRun(str, k + 1)
    ELSE <<>>

\* group 1 of filename="?([^";\s]+)"? matched at position i, <<>> if it
\* does not match there
FilenameAt(str, i) ==
    LET k == i + Len(FilenameKey)
    IN IF i + Len(FilenameKey) - 1 > Len(str)
          \/ SubSeq(str, i, k - 1) # FilenameKey
       THEN <<>>
       ELSE IF k <= Len(str) /\ str[k] = "\"" THEN NameRun(str, k + 1)
       ELSE NameRun(str, k)

\* re.search: the leftmost position where the pattern matches
FilenameMatches(str) == {i \in 1..Len(str) : FilenameAt(str, i) # <<>>}

FirstMatch(str) == CHOOSE i \in FilenameMatches(str) : \A j \in FilenameMatches(str) : i <= j

file_name_of(export_id, headers) ==
    LET content_disposition == Get(headers, "content-disposition", <<>>)
    IN IF FilenameMatches(content_disposition) # {}
       THEN FilenameAt(content_disposition, FirstMatch(content_disposition))
       ELSE <<export_id, ".csv">>

\* base64.b64encode
B64Chars == <<"A", "B", "C", "D", "E", "F", "G", "H", "I", "J", "K", "L", "M",
              "N", "O", "P", "Q", "R", "S", "T", "U", "V", "W", "X", "Y", "Z",
              "a", "b", "c", "d", "e", "f", "g", "h", "i", "j", "k", "l", "m",
              "n", "o", "p", "q", "r", "s", "t", "u", "v", "w", "x", "y", "z",
              "0", "1", "2", "3", "4", "5", "6", "7", "8", "9", "+", "/">>

B64(n) == B64Chars[n + 1]

\* mutant: only the first group of three bytes is encoded
b64encode_HeadOnly(bytes) ==
    IF Len(bytes) < 3 THEN <<>>
    ELSE <<B64(bytes[1] \div 4),
           B64((bytes[1] % 4) * 16 + bytes[2] \div 16),
           B64((bytes[2] % 16) * 4 + bytes[3] \div 64),
           B64(bytes[3] % 64)>>

RECURSIVE b64encode(_)
b64encode(bytes) ==
    CASE Len(bytes) = 0 -> <<>>
      [] Len(bytes) = 1 ->
            <<B64(bytes[1] \div 4), B64((bytes[1] % 4) * 16), "=", "=">>
      [] Len(bytes) = 2 ->
            <<B64(bytes[1] \div 4),
              B64((bytes[1] % 4) * 16 + bytes[2] \div 16),
              B64((bytes[2] % 16) * 4), "=">>
      [] OTHER ->
            <<B64(bytes[1] \div 4),
              B64((bytes[1] % 4) * 16 + bytes[2] \div 16),
              B64((bytes[2] % 16) * 4 + bytes[3] \div 64),
              B64(bytes[3] % 64)>> \o b64encode(SubSeq(bytes, 4, Len(bytes)))

DownloadRequest(export_id, crn) ==
    Request("GET", <<"data_exports", export_id, "download">>, [crn |-> crn], NoBody)

\* save_to_path is None in memory mode; can_write: whether open() succeeds
adapter_download_data_export(export_id, crn, save_to_path, response, can_write) ==
    CASE response.kind = "netfail" ->
            Raises(RequestException(<<"connection failed">>, NoResponse))
      [] response.kind = "http" ->
            Raises([type |-> "HTTPError", str |-> <<"HTTP error">>,
                    response |-> response])
      [] OTHER ->
            LET file_name == file_name_of(export_id, response.headers)
                content_type == Get(response.headers, "content-type",
                                    "application/octet-stream")
            IN IF Truthy(save_to_path)
               THEN IF can_write
                    THEN Returns([export_id |-> export_id, file_name |-> file_name,
                                  content_type |-> content_type,
                                  file_size |-> Len(response.content),
                                  file_path |-> <<save_to_path, "/", file_name>>,
                                  status |-> "downloaded"])
                    ELSE Raises([type |-> "OSError", str |-> <<"cannot open">>])
               ELSE Returns([export_id |-> export_id, file_name |-> file_name,
                             content_type |-> content_type,
                             file_size |-> Len(response.content),
                             file_content |-> response.content,
                             status |-> "downloaded"])

\* mutant: the content is encoded whatever include_base64 says
EncodeContent_Always(result, include_base64) ==
    IF "file_content" \in DOMAIN result
    THEN Without(result, {"file_content"})
            @@ [file_content_base64 |-> b64encode(result.file_content)]
    ELSE result

\* mutant: without include_base64 the raw bytes stay in the result
EncodeContent_KeepsRaw(result, include_base64) ==
    IF include_base64 /\ "file_content" \in DOMAIN result
    THEN Without(result, {"file_content"})
            @@ [file_content_base64 |-> b64encode(result.file_content)]
    ELSE result

\* the base64 step of download_export on the adapter's dict
EncodeContent(result, include_base64) ==
    IF include_base64 /\ "file_content" \in DOMAIN result
    THEN Without(result, {"file_content"})
            @@ [file_content_base64 |-> b64encode(result.file_content)]
    ELSE IF "file_content" \in DOMAIN result
    THEN Without(result, {"file_content"})
    ELSE result

\* mutant: the status is queried before the download is requested
download_export_sent_StatusFirst(export_id, crn) ==
    LET v == validate_session_and_crn(crn)
    IN IF v.raised THEN <<>>
       ELSE <<GetRequest(export_id, v.value.validated_crn),
              DownloadRequest(export_id, v.value.validated_crn)>>

\* mutant: the caller's crn argument is sent as it came
download_export_sent_RawCrn(export_id, crn) ==
    LET v == validate_session_and_crn(crn)
    IN IF v.raised THEN <<>> ELSE <<DownloadRequest(export_id, crn)>>

download_export_sent(export_id, crn) ==
    LET v == validate_session_and_crn(crn)
    IN IF v.raised THEN <<>> ELSE <<DownloadRequest(export_id, v.value.validated_crn)>>

download_export(export_id, crn, save_to_path, include_base64, response, can_write) ==
    LET v == validate_session_and_crn(crn)
    IN IF v.raised THEN CrnErrorResult(v.exc)
       ELSE LET r == adapter_download_data_export(export_id, v.value.validated_crn,
                                                  save_to_path, response, can_write)
            IN IF ~r.raised THEN EncodeContent(r.value, include_base64)
               ELSE IF r.exc.type \in {"RequestException", "HTTPError"}
               THEN handle_api_error(r.exc, <<"download export ", export_id>>)
               ELSE handle_unexpected_error(r.exc, <<"download export ", export_id>>)

\* tools.download_data_export
download_data_export(export_id, result) ==
    IF IsServiceError(result) THEN Construct("DataExportErrorResponse", result)
    ELSE Construct("DownloadDataExportResponse", result)

(***************************************************************************)
(* What the remote can answer to the create POST and to the download GET.  *)
(***************************************************************************)
FreeJobs == {j \in JobIds : phase[j] = NoJob}

\* job descriptors the create POST returns: the full record, the short one,
\* and one naming the job under "id"
CreatedDescriptors(j) ==
    {[job_id |-> j, job_type |-> "export", status |-> "not_started",
      export_type |-> "entity", file_name |-> j, file_expired |-> FALSE],
     [job_id |-> j, status |-> "not_started"],
     [id |-> j, status |-> "not_started"]}

ClientErrors == {HttpError(400, "invalid search criteria"), HttpError(400, "")}

CreateResponses ==
    {OkJson(d) : d \in UNION {CreatedDescriptors(j) : j \in FreeJobs}}
        \cup ClientErrors \cup ServerErrors \cup {NetworkFailure}

\* the job a create response announces
CreatedJob(response) ==
    IF response.kind = "ok"
    THEN {Get(response.json, "job_id", Get(response.json, "id", None))}
    ELSE {}

HeaderQuoted == <<"a", "t", "t", "a", "c", "h", "m", "e", "n", "t", ";", " ",
                "f", "i", "l", "e", "n", "a", "m", "e", "=", "\"", "r", ".",
                "c", "s", "v", "\"">>

HeaderBare == <<"a", "t", "t", "a", "c", "h", "m", "e", "n", "t", ";", " ",
              "f", "i", "l", "e", "n", "a", "m", "e", "=", "r", ".", "c",
              "s", "v">>

HeaderNoName == <<"a", "t", "t", "a", "c", "h", "m", "e", "n", "t">>

HeaderSpaced == <<"a", "t", "t", "a", "c", "h", "m", "e", "n", "t", ";", " ",
                "f", "i", "l", "e", "n", "a", "m", "e", "=", "\"", "a", " ",
                "b", ".", "c", "s", "v", "\"">>

DownloadHeaders ==
    {[h \in {} |-> <<>>],
     [h \in {"content-disposition"} |-> HeaderQuoted],
     [h \in {"content-disposition"} |-> HeaderBare],
     [h \in {"content-disposition"} |-> HeaderNoName],
     [h \in {"content-disposition"} |-> HeaderSpaced]}

\* payloads, as byte sequences
Payloads == {<<>>, <<77>>, <<77, 97>>, <<77, 97, 110>>, <<255, 0, 16, 131>>}

FileResponse(headers, content) ==
    [kind |-> "ok", status_code |-> 200, headers |-> headers, content |-> content]

InProgress == HttpError(503, "export_in_progress")

DownloadResponses(export_id) ==
    IF export_id \in DOMAIN phase /\ phase[export_id] = "succeeded"
    THEN {FileResponse(h, c) : h \in DownloadHeaders, c \in Payloads}
         \cup ServerErrors \cup {NetworkFailure}
    ELSE IF export_id \in DOMAIN phase /\ phase[export_id] # NoJob
    THEN {InProgress, NetworkFailure}
    ELSE {NotFound, NetworkFailure}

(***************************************************************************)
(* Inputs of the calls.                                                    *)
(***************************************************************************)
ExportTypeArgs ==
    {NoneStr, <<>>, <<" ">>, Entity, Record,
     <<" ", "E", "n", "t", "i", "t", "y", " ">>,
     <<"R", "E", "C", "O", "R", "D">>,
     <<"p", "e", "r", "s", "o", "n">>}

FileFormatArgs == {"csv", "json", "xml"}

CompressionArgs == {"zip", "tar", "tgz", "none", "", None}

\* keywords callers construct a CreateDataExportRequest with
RequestKeywords ==
    {[k \in {} |-> ""],
     [file_format |-> "tsv", compression_type |-> "none"],
     [file_format |-> "xml"],
     [compression_type |-> "gzip"],
     [export_name |-> "test", export_type |-> "entity", record_type |-> "person",
      file_format |-> "xml"],
     [export_name |-> "test", export_type |-> "entity", record_type |-> "person",
      compression_type |-> "gzip"]}

CreateRequests ==
    {DefaultCreateRequest,
     [DefaultCreateRequest EXCEPT !.file_format = "json", !.compression_type = "tgz"],
     [DefaultCreateRequest EXCEPT !.crn = GoodCrn],
     [DefaultCreateRequest EXCEPT !.crn = BadCrn]}
        \cup {CreateDataExportRequest(k).value : k \in RequestKeywords}

\* the search criteria override of test_create_export_with_custom_search_criteria
CustomCriteria ==
    [query |-> [expressions |-> <<[property |-> "address.city",
                                   condition |-> "equal", value |-> "Boston"]>>]]

\* keyword calls of create_export: with a criteria override, as the
\* integration test makes it, and with the declared parameters only
KeywordCalls ==
    {[ctx |-> "ctx", export_type |-> Entity, search_criteria |-> CustomCriteria],
     [ctx |-> "ctx", export_type |-> Record, file_format |-> "json",
      crn |-> GoodCrn, search_criteria |-> CustomCriteria],
     [ctx |-> "ctx", export_name |-> "filtered_export", export_type |-> Entity,
      record_type |-> "person", file_format |-> "csv", compression_type |-> "zip",
      search_criteria |-> CustomCriteria],
     [ctx |-> "ctx", export_type |-> Record, file_format |-> "psv",
      compression_type |-> "tar"]}

\* where a download is told to save the file
ExportDir == "/tmp/exports"

SaveToPathArgs == {None, ExportDir}

(***************************************************************************)
(* The state: the module-level service singleton of tools.py, the remote   *)
(* jobs' phases, and the record of the latest call (its arguments, the     *)
(* requests it sent, the answer it got, what the service returned and what *)
(* the call itself returned or raised), and the files the downloads have   *)
(* written to the local disk.                                              *)
(***************************************************************************)
CallRecord(op, args, sent, response, service, outcome) ==
    [op |-> op, args |-> args, sent |-> sent, response |-> response,
     service |-> service, outcome |-> outcome]

\* no call in flight: the single caller is between two calls
Idle == CallRecord("none", NoCall, <<>>, NoResponse, NoCall, Returns(NoCall))

\* no manual script is running
NoScript == [fn |-> "none"]

\* the two threads of the tool-invocation layer; neither runs a call
ThreadIds == {1, 2}

IdleThread == [pc |-> "idle"]

Init ==
    /\ export_service = None
    /\ phase = [j \in JobIds |-> NoJob]
    /\ last = Idle
    /\ disk = {}
    /\ constructed = 0
    /\ polls = 0
    /\ script = NoScript
    /\ threads = [t \in ThreadIds |-> IdleThread]

\* the DataExportService instances, in the order they are constructed
InstanceNames == <<"DataExportService", "DataExportService#2", "DataExportService#3">>

\* tools.get_export_service
get_export_service ==
    IF export_service = None THEN InstanceNames[constructed + 1] ELSE export_service

\* the DataExportService() constructions of one get_export_service call
Constructions == IF export_service = None THEN 1 ELSE 0


\* the remote answers only a request that was sent
Answers(sent, responses) == IF sent = <<>> THEN {NoResponse} ELSE responses

\* the remote registers the job a successful create announces
Register(response) ==
    [j \in JobIds |-> IF j \in CreatedJob(response) THEN "not_started" ELSE phase[j]]

ToolCreate ==
    /\ last = Idle
    /\ \E request \in CreateRequests :
        \E response \in Answers(create_data_export_sent(request), CreateResponses) :
          /\ export_service' = get_export_service
          /\ phase' = Register(response)
          /\ last' = CallRecord("create_data_export", request,
                                create_data_export_sent(request), response,
                                create_data_export_service(request, response),
                                create_data_export(request, response))
          /\ constructed' = constructed + Constructions
          /\ UNCHANGED <<disk, callers>>

\* DataExportService.create_export called directly
ServiceCreate ==
    /\ last = Idle
    /\ \E export_type \in ExportTypeArgs, file_format \in FileFormatArgs,
          compression_type \in CompressionArgs, crn \in CrnArgs :
         LET sent == create_export_sent(export_type, file_format, compression_type, crn)
         IN \E response \in Answers(sent, CreateResponses) :
              LET result == create_export(export_type, file_format, compression_type,
                                          crn, response)
              IN /\ phase' = Register(response)
                 /\ last' = CallRecord("create_export",
                                       [export_type |-> export_type,
                                        file_format |-> file_format,
                                        compression_type |-> compression_type,
                                        crn |-> crn],
                                       sent, response, result, Returns(result))
                 /\ UNCHANGED <<export_service, disk, constructed, callers>>

\* tools.get_data_export called for one of `export_ids`
GetDataExportCall(export_ids) ==
    /\ last = Idle
    /\ \E export_id \in export_ids, crn \in CrnArgs :
         LET sent == get_export_sent(export_id, crn)
         IN \E response \in Answers(sent, GetResponses(export_id)) :
              LET result == get_export(export_id, crn, response)
              IN /\ export_service' = get_export_service
                 /\ last' = CallRecord("get_data_export",
                                       [export_id |-> export_id, crn |-> crn],
                                       sent, response, result,
                                       get_data_export(export_id, result))
                 /\ constructed' = constructed + Constructions
                 /\ UNCHANGED <<phase, disk, script, threads>>

ToolGet == GetDataExportCall(ExportIds) /\ UNCHANGED polls

ToolDownload ==
    /\ last = Idle
    /\ \E export_id \in ExportIds, crn \in CrnArgs :
         LET sent == download_export_sent(export_id, crn)
         IN \E response \in Answers(sent, DownloadResponses(export_id)) :
              LET result == download_export(export_id, crn, None, TRUE, response, TRUE)
              IN /\ export_service' = get_export_service
                 /\ last' = CallRecord("download_data_export",
                                       [export_id |-> export_id, crn |-> crn],
                                       sent, response, result,
                                       download_data_export(export_id, result))
                 /\ constructed' = constructed + Constructions
                 /\ UNCHANGED <<phase, disk, callers>>

\* DataExportService.create_export called with keyword arguments
ServiceCreateKeywords ==
    /\ last = Idle
    /\ \E kwargs \in KeywordCalls :
         LET sent == create_export_call_sent(kwargs)
         IN \E response \in Answers(sent, CreateResponses) :
              /\ phase' = Register(response)
              /\ last' = CallRecord("create_export", CallArguments(kwargs),
                                    sent, response,
                                    create_export_call_service(kwargs, response),
                                    create_export_call(kwargs, response))
              /\ UNCHANGED <<export_service, disk, constructed, callers>>

\* a caller constructs the request model of the create tool
BuildCreateRequest ==
    /\ last = Idle
    /\ \E kwargs \in RequestKeywords :
         last' = CallRecord("CreateDataExportRequest", kwargs, <<>>, NoResponse,
                            NoCall, CreateDataExportRequest(kwargs))
    /\ UNCHANGED <<export_service, phase, disk, constructed, callers>>

\* the files a download leaves on the disk
Written(result) ==
    IF "file_path" \in DOMAIN result THEN {result.file_path} ELSE {}

\* DataExportService.download_export called directly, in memory or disk mode
ServiceDownload ==
    /\ last = Idle
    /\ \E export_id \in ExportIds, crn \in CrnArgs, save_to_path \in SaveToPathArgs,
          include_base64 \in BOOLEAN, can_write \in BOOLEAN :
         LET sent == download_export_sent(export_id, crn)
         IN \E response \in Answers(sent, DownloadResponses(export_id)) :
              LET result == download_export(export_id, crn, save_to_path,
                                            include_base64, response, can_write)
              IN /\ disk' = disk \cup Written(result)
                 /\ last' = CallRecord("download_export",
                                       [export_id |-> export_id, crn |-> crn,
                                        save_to_path |-> save_to_path,
                                        include_base64 |-> include_base64],
                                       sent, response, result, Returns(result))
                 /\ UNCHANGED <<export_service, phase, constructed, callers>>

\* the remote moves a job along its lifecycle; a call's exchange with the
\* remote is one step, so the job moves between two calls
RemoteAdvance ==
    /\ last = Idle
    /\ \E j \in DOMAIN phase : \E p \in NextPhases(phase[j]) :
         /\ phase' = [phase EXCEPT ![j] = p]
         /\ UNCHANGED <<export_service, last, disk, constructed, callers>>

\* the caller takes the call's outcome and is free to call again
CallReturns ==
    /\ last # Idle
    /\ last' = Idle
    /\ UNCHANGED <<export_service, phase, disk, constructed, callers>>

Next ==
    \/ ToolCreate
    \/ ServiceCreate
    \/ ToolGet
    \/ ToolDownload
    \/ ServiceCreateKeywords
    \/ BuildCreateRequest
    \/ ServiceDownload
    \/ CallReturns
    \/ RemoteAdvance

Spec == Init /\ [][Next]_vars

(***************************************************************************)
(* A caller polling one job: a sequence of get_data_export calls for the   *)
(* same export id while the remote moves the job along.                    *)
(***************************************************************************)
MaxPolls == 3

PolledJob == JobNames[1]

PollInit ==
    /\ export_service = None
    /\ phase = [j \in JobIds |-> IF j = PolledJob THEN "not_started" ELSE NoJob]
    /\ last = Idle
    /\ disk = {}
    /\ constructed = 0
    /\ polls = 0
    /\ script = NoScript
    /\ threads = [t \in ThreadIds |-> IdleThread]

\* the call returned a DataExportErrorResponse whose error is `error`
IsErrorOutcome(outcome, error) ==
    /\ ~outcome.raised
    /\ outcome.value.model = "DataExportErrorResponse"
    /\ outcome.value.fields.error = error

\* one poll; `polls` counts the not-ready results the caller has received
Poll ==
    /\ polls < MaxPolls
    /\ GetDataExportCall({PolledJob})
    /\ polls' = IF IsErrorOutcome(last'.outcome, "ExportNotReady")
                THEN polls + 1 ELSE polls

PollNext ==
    \/ Poll
    \/ CallReturns
    \/ RemoteAdvance

PollSpec == PollInit /\ [][PollNext]_vars

(***************************************************************************)
(* The manual script tests/test_data_ms/test_export_manual.py: the polling *)
(* loop, the download test and the full workflow, each calling the service *)
(* directly.  `script` is the frame of the running function.               *)
(***************************************************************************)
MaxWait == 3

MaxInterval == 2

\* a local variable no statement has assigned yet
Unbound == "<unbound>"

\* poll_export_status(export_id, max_wait_seconds=120, poll_interval=5) as
\* test_full_workflow calls it
WorkflowMaxWait == 120

WorkflowPollInterval == 5

\* the keywords test_create_export_basic passes to create_export
ManualCreateKeywords ==
    [ctx |-> "ctx", export_name |-> "manual_test_export", export_type |-> Entity,
     record_type |-> "person", file_format |-> "csv", compression_type |-> "none"]

\* what test_create_export_basic returns (or raises) to its caller
test_create_export_basic(response) ==
    LET call == create_export_call(ManualCreateKeywords, response)
    IN IF call.raised THEN call
       ELSE IF "error" \in DOMAIN call.value THEN Returns(None)
       ELSE Returns(Get(call.value, "job_id", Get(call.value, "id", None)))

\* the frame of a script function at its first statement
ScriptFrame(fn, pc, export_id, max_wait_seconds, poll_interval) ==
    [fn |-> fn, pc |-> pc, export_id |-> export_id,
     max_wait_seconds |-> max_wait_seconds, poll_interval |-> poll_interval,
     elapsed |-> 0, status |-> Unbound, ret |-> Unbound,
     trace |-> <<>>, downloads |-> <<>>]

\* the functions the menu of run_all_tests starts, with their arguments
ScriptStarts ==
    {ScriptFrame("poll_export_status", "poll", export_id, w, i) :
         export_id \in ExportIds, w \in 1..MaxWait, i \in 1..MaxInterval}
    \cup {ScriptFrame("test_download_export", "download", export_id, 0, 0) :
              export_id \in ExportIds}
    \cup {ScriptFrame("test_full_workflow", "create", Unbound,
                      WorkflowMaxWait, WorkflowPollInterval)}

ScriptInit ==
    /\ export_service = None
    /\ phase \in [JobIds -> KnownStatuses \cup {NoJob}]
    /\ last = Idle
    /\ disk = {}
    /\ constructed = 0
    /\ polls = 0
    /\ script \in ScriptStarts
    /\ threads = [t \in ThreadIds |-> IdleThread]

\* what a query that returned an error dict leaves in the trace
PollError == "<error>"

\* a status query of the script: the job asked about and what came back
Query(export_id, seen) == [export_id |-> export_id, seen |-> seen]

\* mutant: the loop goes on after a canceled job
PollerStops_NotOnCanceled(status) == status = "succeeded" \/ status = "failed"

\* the statuses at which poll_export_status returns from inside the loop
PollerStops(status) == status = "succeeded" \/ status \in {"failed", "canceled"}

\* poll_export_status returns `value`: to the menu, or to test_full_workflow,
\* which downloads only for 'succeeded'
poll_returns(s, value) ==
    IF s.fn = "poll_export_status" THEN [s EXCEPT !.pc = "done", !.ret = value]
    ELSE IF value # "succeeded" THEN [s EXCEPT !.pc = "done", !.ret = None]
    ELSE [s EXCEPT !.pc = "download"]

\* one pass through the body of the loop, `result` being get_export's dict
poll_iteration(s, result) ==
    IF "error" \in DOMAIN result
    THEN poll_returns([s EXCEPT !.trace = Append(@, Query(s.export_id, PollError))],
                      None)
    ELSE LET status == Get(result, "status", None)
             seen == [s EXCEPT !.status = status,
                               !.trace = Append(@, Query(s.export_id, status))]
         IN IF PollerStops(status) THEN poll_returns(seen, status)
            ELSE [seen EXCEPT !.elapsed = @ + s.poll_interval]

\* mutant: the workflow goes on to the download whatever creation returned
after_create_Proceeds(s, outcome) == [s EXCEPT !.pc = "download"]

\* test_full_workflow after test_create_export_basic
after_create(s, outcome) ==
    IF outcome.raised THEN [s EXCEPT !.pc = "raised"]
    ELSE IF outcome.value = None THEN [s EXCEPT !.pc = "done", !.ret = None]
    ELSE [s EXCEPT !.export_id = outcome.value, !.pc = "poll"]

\* while elapsed < max_wait_seconds: query, test, sleep
PollQuery ==
    /\ script.fn # "none"
    /\ script.pc = "poll"
    /\ script.elapsed < script.max_wait_seconds
    /\ \E response \in Answers(get_export_sent(script.export_id, None),
                               GetResponses(script.export_id)) :
         script' = poll_iteration(script, get_export(script.export_id, None, response))
    /\ UNCHANGED <<export_service, phase, last, disk, constructed, polls, threads>>

\* the loop's condition fails: return status
PollTimeout ==
    /\ script.fn # "none"
    /\ script.pc = "poll"
    /\ script.elapsed >= script.max_wait_seconds
    /\ script' = poll_returns(script, script.status)
    /\ UNCHANGED <<export_service, phase, last, disk, constructed, polls, threads>>

\* step 1 of test_full_workflow
WorkflowCreate ==
    /\ script.fn # "none"
    /\ script.pc = "create"
    /\ \E response \in Answers(create_export_call_sent(ManualCreateKeywords),
                               CreateResponses) :
         /\ phase' = Register(response)
         /\ script' = after_create(script, test_create_export_basic(response))
    /\ UNCHANGED <<export_service, last, disk, constructed, polls, threads>>

\* test_download_export(export_id): download_export with its defaults
TestDownloadExport ==
    /\ script.fn # "none"
    /\ script.pc = "download"
    /\ \E can_write \in BOOLEAN :
         LET sent == download_export_sent(script.export_id, None)
         IN \E response \in Answers(sent, DownloadResponses(script.export_id)) :
              LET result == download_export(script.export_id, None, None, TRUE,
                                            response, can_write)
              IN /\ disk' = disk \cup Written(result)
                 /\ script' = [script EXCEPT !.pc = "done", !.ret = None,
                                             !.downloads = Append(@, sent)]
    /\ UNCHANGED <<export_service, phase, last, constructed, polls, threads>>

ScriptNext ==
    \/ PollQuery
    \/ PollTimeout
    \/ WorkflowCreate
    \/ TestDownloadExport
    \/ RemoteAdvance

\* the script is a sequential program that keeps running: a step it can
\* take is eventually taken; nothing is assumed of the remote
ScriptSpec ==
    /\ ScriptInit
    /\ [][ScriptNext]_vars
    /\ WF_vars(PollQuery)
    /\ WF_vars(PollTimeout)

(***************************************************************************)
(* Overlapping tool invocations.  The tool functions are synchronous and   *)
(* take no lock; two invocations running at the same time interleave at    *)
(* the statements that read or write the module global _export_service.    *)
(* Thread t calls the tools for its own job.                               *)
(***************************************************************************)
ThreadJob(t) == JobNames[t]

ThreadJobs == {ThreadJob(t) : t \in ThreadIds}

\* the phases the two jobs are in when the invocations arrive
ThreadPhases == {"running", "succeeded"}

\* the crn arguments of the overlapping invocations: none given, or a bad one
ThreadCrnArgs == {None, BadCrn}

ThreadTools == {"create_data_export", "get_data_export", "download_data_export"}

ThreadInit ==
    /\ export_service = None
    /\ phase \in [ThreadJobs -> ThreadPhases]
    /\ last = Idle
    /\ disk = {}
    /\ constructed = 0
    /\ polls = 0
    /\ script = NoScript
    /\ threads = [t \in ThreadIds |-> IdleThread]

\* the locals of a tool invocation at its first statement
ThreadFrame(tool, export_id, crn) ==
    [pc |-> "test", tool |-> tool, export_id |-> export_id, crn |-> crn,
     service |-> Unbound, response |-> NoResponse, result |-> NoCall,
     outcome |-> Returns(NoCall)]

\* the request, the remote's answer and the dict the service returns
ThreadExchanges(th) ==
    CASE th.tool = "get_data_export" ->
            {[response |-> response,
              result |-> get_export(th.export_id, th.crn, response)] :
                 response \in Answers(get_export_sent(th.export_id, th.crn),
                                      GetResponses(th.export_id))}
      [] th.tool = "download_data_export" ->
            {[response |-> response,
              result |-> download_export(th.export_id, th.crn, None, TRUE,
                                         response, TRUE)] :
                 response \in Answers(download_export_sent(th.export_id, th.crn),
                                      DownloadResponses(th.export_id))}
      [] OTHER ->
            {[response |-> NoResponse,
              result |-> create_data_export_service(DefaultCreateRequest, NoResponse)]}

\* what the tool function returns for the service's dict
ToolOutcome(tool, export_id, result) ==
    CASE tool = "get_data_export" -> get_data_export(export_id, result)
      [] tool = "download_data_export" -> download_data_export(export_id, result)
      [] OTHER -> create_data_export(DefaultCreateRequest, NoResponse)

\* mutant: the dict is read from where the latest service call left it
ResultOf_Latest(t) ==
    IF \E u \in ThreadIds \ {t} : threads[u].pc \in {"respond", "done"}
    THEN threads[CHOOSE u \in ThreadIds \ {t} :
                     threads[u].pc \in {"respond", "done"}].result
    ELSE threads[t].result

\* the local `result` of the invocation
ResultOf(t) == threads[t].result

\* the dispatcher starts a tool function
ThreadCall(t) ==
    /\ threads[t].pc = "idle"
    /\ \E tool \in ThreadTools, crn \in ThreadCrnArgs :
         threads' = [threads EXCEPT ![t] = ThreadFrame(tool, ThreadJob(t), crn)]
    /\ UNCHANGED <<export_service, phase, last, disk, constructed, polls, script>>

\* get_export_service: if _export_service is None
ThreadTest(t) ==
    /\ threads[t].pc = "test"
    /\ threads' = [threads EXCEPT ![t].pc = IF export_service = None
                                            THEN "construct" ELSE "return"]
    /\ UNCHANGED <<export_service, phase, last, disk, constructed, polls, script>>

\* get_export_service: _export_service = DataExportService()
ThreadConstruct(t) ==
    /\ threads[t].pc = "construct"
    /\ export_service' = InstanceNames[constructed + 1]
    /\ constructed' = constructed + 1
    /\ threads' = [threads EXCEPT ![t].pc = "return"]
    /\ UNCHANGED <<phase, last, disk, polls, script>>

\* get_export_service: return _export_service
ThreadGetService(t) ==
    /\ threads[t].pc = "return"
    /\ threads' = [threads EXCEPT ![t].service = export_service, ![t].pc = "call"]
    /\ UNCHANGED <<export_service, phase, last, disk, constructed, polls, script>>

\* result = service.<operation>(...)
ThreadService(t) ==
    /\ threads[t].pc = "call"
    /\ \E x \in ThreadExchanges(threads[t]) :
         /\ threads' = [threads EXCEPT ![t].response = x.response,
                                       ![t].result = x.result,
                                       ![t].pc = "respond"]
         /\ disk' = disk \cup Written(x.result)
    /\ UNCHANGED <<export_service, phase, last, constructed, polls, script>>

\* the tool builds its response model from `result`
ThreadRespond(t) ==
    /\ threads[t].pc = "respond"
    /\ threads' = [threads EXCEPT
                      ![t].outcome = ToolOutcome(threads[t].tool, threads[t].export_id,
                                                 ResultOf(t)),
                      ![t].pc = "done"]
    /\ UNCHANGED <<export_service, phase, last, disk, constructed, polls, script>>

\* the dispatcher takes the outcome; the thread is free for the next call
ThreadReturn(t) ==
    /\ threads[t].pc = "done"
    /\ threads' = [threads EXCEPT ![t] = IdleThread]
    /\ UNCHANGED <<export_service, phase, last, disk, constructed, polls, script>>

ThreadNext ==
    \/ \E t \in ThreadIds : ThreadCall(t)
    \/ \E t \in ThreadIds : ThreadTest(t)
    \/ \E t \in ThreadIds : ThreadConstruct(t)
    \/ \E t \in ThreadIds : ThreadGetService(t)
    \/ \E t \in ThreadIds : ThreadService(t)
    \/ \E t \in ThreadIds : ThreadRespond(t)
    \/ \E t \in ThreadIds : ThreadReturn(t)

ThreadSpec == ThreadInit /\ [][ThreadNext]_vars

(***************************************************************************)
(* Vocabulary of the properties below.                                     *)
(***************************************************************************)
GetCall == last.op = "get_data_export"

ToolCall == last.op \in {"create_data_export", "get_data_export", "download_data_export"}

\* the call returned an instance of the pydantic model `model`
ReturnedModel(model) == ~last.outcome.raised /\ last.outcome.value.model = model

ErrorResult == ReturnedModel("DataExportErrorResponse")

ResultFields == last.outcome.value.fields

\* the status query got a 2xx answer carrying a job descriptor
Observed == last.response.kind = "ok"

Descriptor == last.response.json

\* the descriptor's status string is one of `statuses`
ObservedStatusIn(statuses) ==
    /\ Observed
    /\ "status" \in DOMAIN Descriptor
    /\ Descriptor.status \in statuses

ServiceFailed == "error" \in DOMAIN last.service

(***************************************************************************)
(* C1: get_data_export returns a success result (the job descriptor) if    *)
(* and only if the service call returned no error and the remote status    *)
(* is exactly "succeeded"; in every other case it returns a structured     *)
(* error result.                                                           *)
(***************************************************************************)
C1_SuccessIffSucceeded ==
    GetCall =>
        /\ ReturnedModel("GetDataExportResponse")
              <=> (~ServiceFailed /\ ObservedStatusIn({"succeeded"}))
        /\ ~ReturnedModel("GetDataExportResponse") => ErrorResult

(***************************************************************************)
(* C2: for every remote status in {not_started, prep, queued, running},    *)
(* get_data_export returns an error result with error "ExportNotReady",    *)
(* status_code 202 and a message containing the observed status.           *)
(***************************************************************************)
C2_RunningIsNotReady ==
    (GetCall /\ ObservedStatusIn(RunningClass)) =>
        /\ ErrorResult
        /\ ResultFields.error = "ExportNotReady"
        /\ ResultFields.status_code = 202
        /\ Contains(ResultFields.message, Descriptor.status)

C2_Witness ==
    /\ GetCall
    /\ ObservedStatusIn({"prep"})
    /\ ErrorResult
    /\ ResultFields.status_code = 202

(***************************************************************************)
(* C3: for every remote status in {failed, canceled}, get_data_export      *)
(* returns an error result with error "ExportFailed", status_code 400 and  *)
(* a message containing the requested export id and the observed status.   *)
(***************************************************************************)
C3_TerminalFailure ==
    (GetCall /\ ObservedStatusIn(FailureClass)) =>
        /\ ErrorResult
        /\ ResultFields.error = "ExportFailed"
        /\ ResultFields.status_code = 400
        /\ Contains(ResultFields.message, last.args.export_id)
        /\ Contains(ResultFields.message, Descriptor.status)

C3_Witness ==
    /\ GetCall
    /\ ObservedStatusIn({"canceled"})
    /\ ErrorResult
    /\ ResultFields.error = "ExportFailed"

(***************************************************************************)
(* C4: for every status string outside the seven known ones, and for a     *)
(* descriptor with no status field, get_data_export returns the not-ready  *)
(* result (ExportNotReady, 202), never a success or ExportFailed result.   *)
(***************************************************************************)
UnrecognizedStatus ==
    /\ Observed
    /\ "status" \in DOMAIN Descriptor => Descriptor.status \notin KnownStatuses

C4_UnrecognizedIsNotReady ==
    (GetCall /\ UnrecognizedStatus) =>
        /\ ErrorResult
        /\ ResultFields.error = "ExportNotReady"
        /\ ResultFields.status_code = 202

C4_Witness ==
    /\ GetCall
    /\ Observed
    /\ "status" \notin DOMAIN Descriptor
    /\ "file_name" \notin DOMAIN Descriptor
    /\ ErrorResult
    /\ ResultFields.error = "ExportNotReady"

(***************************************************************************)
(* C5: when the service-level status query fails (its result carries an    *)
(* "error" key), get_data_export returns that error's kind and status_code *)
(* unchanged and classifies no status.                                     *)
(***************************************************************************)
C5_ServiceErrorPassesThrough ==
    (GetCall /\ ServiceFailed) =>
        /\ ErrorResult
        /\ ResultFields.error = last.service.error
        /\ ResultFields.status_code = last.service.status_code
        /\ ResultFields.error \notin {"ExportNotReady", "ExportFailed"}

C5_Witness ==
    /\ GetCall
    /\ last.response.kind = "http"
    /\ ServiceFailed
    /\ ErrorResult
    /\ ResultFields.status_code = 404

(***************************************************************************)
(* C6: the not-ready outcome of get_data_export is distinguishable from    *)
(* every other outcome: every not-ready result has error "ExportNotReady"  *)
(* and status_code 202, and no transport-error, validation-error or        *)
(* terminal-failure result has either.                                     *)
(***************************************************************************)
NotReadyCase ==
    /\ ~ServiceFailed
    /\ ~ObservedStatusIn(SuccessClass \cup FailureClass)

C6_NotReadyDistinguishable ==
    (GetCall /\ ErrorResult) =>
        IF NotReadyCase
        THEN ResultFields.error = "ExportNotReady" /\ ResultFields.status_code = 202
        ELSE ResultFields.error # "ExportNotReady" /\ ResultFields.status_code # 202

C6_Witness ==
    /\ GetCall
    /\ ErrorResult
    /\ ~NotReadyCase
    /\ ObservedStatusIn({"failed"})
    /\ ResultFields.status_code = 400

(***************************************************************************)
(* C7: every invocation of create_data_export, get_data_export and         *)
(* download_data_export returns a success result or a structured error     *)
(* result; no exception propagates out of the tool function.               *)
(***************************************************************************)
C7_NoExceptionEscapes == ToolCall => ~last.outcome.raised

(***************************************************************************)
(* C8: create_data_export with a default request sends one POST to         *)
(* data_exports whose body is exactly {export_type: "entity", format:      *)
(* "csv", search_criteria: wildcard entity criteria} and whose query       *)
(* parameters carry compression_type "zip", and returns the remote job     *)
(* descriptor.                                                             *)
(***************************************************************************)
C8_DefaultCreate ==
    (last.op = "create_data_export" /\ last.args = DefaultCreateRequest) =>
        /\ Len(last.sent) = 1
        /\ last.sent[1].method = "POST"
        /\ last.sent[1].endpoint = <<"data_exports">>
        /\ DOMAIN last.sent[1].body = {"export_type", "format", "search_criteria"}
        /\ last.sent[1].body.export_type = Entity
        /\ last.sent[1].body.format = "csv"
        /\ last.sent[1].body.search_criteria.search_type = Entity
        /\ "compression_type" \in DOMAIN last.sent[1].params
        /\ last.sent[1].params.compression_type = "zip"
        /\ last.response.kind = "ok" => ReturnedModel("ExportJobResponse")

(***************************************************************************)
(* C9: for every (export_type, file_format, compression_type) passed to    *)
(* create_export, the body of the request sent has no compression key      *)
(* ("compression" or "compression_type"), and when compression_type is     *)
(* zip, tar or tgz the query parameters of that request carry              *)
(* compression_type with that value.                                       *)
(***************************************************************************)
C9_BodyQuerySplit ==
    last.op = "create_export" =>
        \A i \in 1..Len(last.sent) :
            /\ DOMAIN last.sent[i].body \cap {"compression", "compression_type"} = {}
            /\ last.args.compression_type \in {"zip", "tar", "tgz"} =>
                  /\ "compression_type" \in DOMAIN last.sent[i].params
                  /\ last.sent[i].params.compression_type = last.args.compression_type

C9_Witness ==
    /\ last.op = "create_export"
    /\ last.args.compression_type = "tgz"
    /\ Len(last.sent) = 1
    /\ last.sent[1].params.compression_type = "tgz"
    /\ "search_criteria" \in DOMAIN last.sent[1].body

(***************************************************************************)
(* C10: when the caller supplies no search criteria, the body's            *)
(* search_criteria has search_type equal to the export kind and a query    *)
(* combining under operation "and" a single expression whose property is   *)
(* "*" and whose value is "*", plus a filter selecting all records or      *)
(* entities of the requested kind.                                         *)
(***************************************************************************)
C10_DefaultCriteria ==
    last.op = "create_export" =>
        \A i \in 1..Len(last.sent) :
            LET body == last.sent[i].body
                criteria == body.search_criteria
            IN /\ criteria.search_type = body.export_type
               /\ criteria.query.operation = "and"
               /\ Len(criteria.query.expressions) = 1
               /\ "property" \in DOMAIN criteria.query.expressions[1]
               /\ criteria.query.expressions[1].property = "*"
               /\ criteria.query.expressions[1].value = "*"
               /\ Len(criteria.filters) = 1
               /\ criteria.filters[1].type = body.export_type

\* create_export called with arguments that bind to its parameters and
\* pass the tenant/session validation
CreateReachesAdapter ==
    /\ last.op = "create_export"
    /\ DOMAIN last.args \subseteq create_export_parameters
    /\ last.args.crn # BadCrn

\* the export type the body is to carry for the input `export_type`
ExpectedExportType(export_type) ==
    IF export_type # NoneStr /\ Lower(Strip(export_type)) \in {Entity, Record}
    THEN Lower(Strip(export_type))
    ELSE Entity

(***************************************************************************)
(* C11: for every export_type passed to create_export, the body's          *)
(* export_type is the input trimmed and lower-cased when that is "entity"  *)
(* or "record", and "entity" for every other input (None, blank,           *)
(* whitespace only, unrecognized); the call is never rejected because of   *)
(* its export_type: the POST is sent whatever the export_type.             *)
(***************************************************************************)
C11_ExportTypeNormalized ==
    CreateReachesAdapter =>
        /\ Len(last.sent) = 1
        /\ last.sent[1].body.export_type = ExpectedExportType(last.args.export_type)
        /\ last.response.kind = "ok" => ~ServiceFailed

C11_Witness ==
    /\ CreateReachesAdapter
    /\ last.args.export_type = <<"R", "E", "C", "O", "R", "D">>
    /\ Len(last.sent) = 1
    /\ last.sent[1].body.export_type = Record
    /\ last.response.kind = "ok"

(***************************************************************************)
(* C12: when the caller passes a search_criteria override to               *)
(* create_export, the job is created (the POST is sent and the remote's    *)
(* descriptor returned) and the body's search_criteria carries the         *)
(* caller's query expressions, not the default wildcard, with search_type  *)
(* set to the export kind.                                                 *)
(***************************************************************************)
C12_CriteriaOverride ==
    (last.op = "create_export" /\ "search_criteria" \in DOMAIN last.args
        /\ last.args.crn # BadCrn) =>
        /\ ~last.outcome.raised
        /\ Len(last.sent) = 1
        /\ last.sent[1].body.search_criteria.query.expressions
              = last.args.search_criteria.query.expressions
        /\ last.sent[1].body.search_criteria.search_type
              = last.sent[1].body.export_type
        /\ last.response.kind = "ok" => last.outcome.value = last.response.json

\* the values the create request documents for its options
ValidFileFormats == {"csv", "tsv", "psv", "json"}

ValidCompressionTypes == {"none", "zip", "tar", "tgz"}

(***************************************************************************)
(* C13: constructing a CreateDataExportRequest fails with a validation     *)
(* error whenever file_format is outside {csv, tsv, psv, json} or          *)
(* compression_type is outside {none, zip, tar, tgz}, so that no create    *)
(* request of the tool carrying such a value reaches the remote API.       *)
(***************************************************************************)
C13_InvalidOptionsRejected ==
    /\ last.op = "CreateDataExportRequest" =>
          ((Get(last.args, "file_format", "csv") \notin ValidFileFormats
               \/ Get(last.args, "compression_type", "zip") \notin ValidCompressionTypes)
             => last.outcome.raised)
    /\ last.op = "create_data_export" =>
          \A i \in 1..Len(last.sent) :
             /\ last.sent[i].body.format \in ValidFileFormats
             /\ Get(last.sent[i].params, "compression_type", "none")
                   \in ValidCompressionTypes

\* the POSTs to data_exports among the requests of the latest call
CreatePosts ==
    {i \in 1..Len(last.sent) :
        last.sent[i].method = "POST" /\ last.sent[i].endpoint = <<"data_exports">>}

CreateGotHttpError ==
    /\ last.op = "create_export"
    /\ last.response.kind = "http"

(***************************************************************************)
(* C15: when the remote answers the create POST with a non-2xx status S    *)
(* and body text B, create_export returns {error: "APIError",              *)
(* status_code: S, ...} whose details contain B verbatim under both        *)
(* "mdm_response" and "response_body".                                     *)
(***************************************************************************)
C15_ErrorBodyVerbatim ==
    CreateGotHttpError =>
        /\ ServiceFailed
        /\ last.service.error = "APIError"
        /\ last.service.status_code = last.response.status_code
        /\ "response_body" \in DOMAIN last.service.details
        /\ last.service.details.response_body = last.response.text
        /\ "mdm_response" \in DOMAIN last.service.details
        /\ last.service.details.mdm_response = last.response.text

(***************************************************************************)
(* C15, amended: the details contain B verbatim under "response_body",     *)
(* and under "mdm_response" too when B is not empty; for an empty body     *)
(* the details have no "mdm_response" key.                                 *)
(***************************************************************************)
C15_ErrorBodyPreserved ==
    CreateGotHttpError =>
        /\ ServiceFailed
        /\ last.service.error = "APIError"
        /\ last.service.status_code = last.response.status_code
        /\ "response_body" \in DOMAIN last.service.details
        /\ last.service.details.response_body = last.response.text
        /\ IF last.response.text = ""
           THEN "mdm_response" \notin DOMAIN last.service.details
           ELSE /\ "mdm_response" \in DOMAIN last.service.details
                /\ last.service.details.mdm_response = last.response.text

C15_Witness ==
    /\ CreateGotHttpError
    /\ last.response.status_code = 500
    /\ last.service.status_code = 500
    /\ last.service.details.mdm_response = "Internal Server Error"
    /\ last.service.details.response_body = "Internal Server Error"

ValidationFailed ==
    /\ last.op \in {"create_export", "get_data_export", "download_export",
                    "download_data_export"}
    /\ "nocall" \notin DOMAIN last.service
    /\ last.args.crn = BadCrn

(***************************************************************************)
(* C17: when tenant/session validation fails in create_export, get_export  *)
(* or download_export, the failure is returned as a structured result      *)
(* with an "error" key, status_code 400 and a "message", never raised,     *)
(* and no request is sent.                                                 *)
(***************************************************************************)
C17_ValidationIsStructured ==
    ValidationFailed =>
        /\ ~last.outcome.raised
        /\ ServiceFailed
        /\ last.service.status_code = 400
        /\ "message" \in DOMAIN last.service
        /\ last.sent = <<>>

C17_Witness ==
    /\ ValidationFailed
    /\ last.op = "download_export"
    /\ last.service.error = "ValidationError"
    /\ last.service.status_code = 400
    /\ last.sent = <<>>

\* a download the service reports as done
DownloadSucceeded ==
    /\ last.op \in {"download_export", "download_data_export"}
    /\ last.response.kind = "ok"
    /\ ~ServiceFailed

\* the file name a content-disposition header gives, <<>> when it names none
HeaderFilename(headers) ==
    LET value == Get(headers, "content-disposition", <<>>)
    IN CASE value \in {HeaderQuoted, HeaderBare} -> <<"r", ".", "c", "s", "v">>
         [] value = HeaderSpaced -> <<"a", " ", "b", ".", "c", "s", "v">>
         [] OTHER -> <<>>

(***************************************************************************)
(* C18: for every successful download, file_name is the filename given in  *)
(* the content-disposition header when the header names one, and           *)
(* "{export_id}.csv" otherwise; the client derives no other name.          *)
(***************************************************************************)
C18_FileNameFromHeader ==
    DownloadSucceeded =>
        last.service.file_name =
            IF HeaderFilename(last.response.headers) # <<>>
            THEN HeaderFilename(last.response.headers)
            ELSE <<last.args.export_id, ".csv">>

\* download_export itself, with its own save_to_path and include_base64
ServiceDownloadSucceeded ==
    /\ last.op = "download_export"
    /\ last.response.kind = "ok"
    /\ ~ServiceFailed

(***************************************************************************)
(* C19: every successful download_export result contains exactly one of   *)
(* file_content_base64 and file_path: file_path (and no content field)     *)
(* when a destination path was supplied, file_content_base64 (and no       *)
(* file_path) when none was supplied, for every value of include_base64.   *)
(***************************************************************************)
C19_ExactlyOneOutput ==
    ServiceDownloadSucceeded =>
        IF last.args.save_to_path # None
        THEN /\ "file_path" \in DOMAIN last.service
             /\ "file_content_base64" \notin DOMAIN last.service
        ELSE /\ "file_content_base64" \in DOMAIN last.service
             /\ "file_path" \notin DOMAIN last.service

(***************************************************************************)
(* C19, amended: a successful download_export result never contains both   *)
(* fields; it contains file_path alone when a destination path was         *)
(* supplied, file_content_base64 alone when none was supplied and          *)
(* include_base64 is true, and neither when none was supplied and          *)
(* include_base64 is false.                                                *)
(***************************************************************************)
C19_OutputByMode ==
    ServiceDownloadSucceeded =>
        DOMAIN last.service \cap {"file_path", "file_content_base64"} =
            IF last.args.save_to_path # None THEN {"file_path"}
            ELSE IF last.args.include_base64 THEN {"file_content_base64"}
            ELSE {}

C19_Witness ==
    /\ ServiceDownloadSucceeded
    /\ last.args.save_to_path = None
    /\ ~last.args.include_base64
    /\ last.response.content = <<77, 97, 110>>
    /\ DOMAIN last.service \cap {"file_path", "file_content_base64"} = {}
    /\ disk # {}

(***************************************************************************)
(* C20: no result returned by download_export or by the                    *)
(* download_data_export tool, on any path (memory or disk mode, success    *)
(* or error, include_base64 true or false), contains the raw-bytes field   *)
(* file_content.                                                           *)
(***************************************************************************)
C20_NoRawBytes ==
    /\ last.op \in {"download_export", "download_data_export"} =>
          "file_content" \notin DOMAIN last.service
    /\ (last.op = "download_data_export" /\ ~last.outcome.raised) =>
          "file_content" \notin DOMAIN ResultFields

C20_Witness ==
    /\ ServiceDownloadSucceeded
    /\ last.args.save_to_path = None
    /\ ~last.args.include_base64
    /\ last.response.content = <<255, 0, 16, 131>>
    /\ last.service.file_size = 4
    /\ "file_content" \notin DOMAIN last.service

\* the 6-bit value of a base64 character
B64Index(c) == CHOOSE n \in 0..63 : B64Chars[n + 1] = c

RECURSIVE b64decode(_)
\* base64.b64decode of a padded base64 string
b64decode(chars) ==
    IF Len(chars) < 4 THEN <<>>
    ELSE LET v1 == B64Index(chars[1])
             v2 == B64Index(chars[2])
             rest == b64decode(SubSeq(chars, 5, Len(chars)))
         IN IF chars[3] = "="
            THEN <<v1 * 4 + v2 \div 16>> \o rest
            ELSE IF chars[4] = "="
            THEN <<v1 * 4 + v2 \div 16,
                   (v2 % 16) * 16 + B64Index(chars[3]) \div 4>> \o rest
            ELSE <<v1 * 4 + v2 \div 16,
                   (v2 % 16) * 16 + B64Index(chars[3]) \div 4,
                   (B64Index(chars[3]) % 4) * 64 + B64Index(chars[4])>> \o rest

\* a successful download that keeps the payload in memory
MemoryDownload ==
    /\ DownloadSucceeded
    /\ Get(last.args, "save_to_path", None) = None

(***************************************************************************)
(* C21: for every payload P downloaded in memory mode, the result's        *)
(* file_size is the length of P, and decoding file_content_base64 yields   *)
(* exactly P, so that the decoded length equals file_size.                 *)
(***************************************************************************)
C21_Base64RoundTrip ==
    MemoryDownload =>
        /\ last.service.file_size = Len(last.response.content)
        /\ "file_content_base64" \in DOMAIN last.service =>
              /\ b64decode(last.service.file_content_base64) = last.response.content
              /\ Len(b64decode(last.service.file_content_base64)) = last.service.file_size
        /\ last.op = "download_data_export" =>
              /\ ReturnedModel("DownloadDataExportResponse")
              /\ ResultFields.file_size = Len(last.response.content)
              /\ b64decode(ResultFields.file_content_base64) = last.response.content

C21_Witness ==
    /\ MemoryDownload
    /\ last.op = "download_data_export"
    /\ last.response.content = <<255, 0, 16, 131>>
    /\ ResultFields.file_size = 4
    /\ ResultFields.file_content_base64 = <<"/", "w", "A", "Q", "g", "w", "=", "=">>

\* the job a download asks for has not reached succeeded when it is called
DownloadTooEarly ==
    /\ last.op \in {"download_export", "download_data_export"}
    /\ last.args.export_id \in JobIds
    /\ phase[last.args.export_id] # "succeeded"
    /\ last.response.kind = "http"

(***************************************************************************)
(* C22: download_export issues only the download request and never a       *)
(* status query; when it is called for a job that has not reached          *)
(* succeeded, the remote's transport error is returned as a structured     *)
(* error result with the remote's status code, and no file content or      *)
(* path is returned.                                                       *)
(***************************************************************************)
C22_DownloadOnly ==
    /\ last.op \in {"download_export", "download_data_export"} =>
          /\ Len(last.sent) <= 1
          /\ \A i \in 1..Len(last.sent) :
                /\ last.sent[i].method = "GET"
                /\ last.sent[i].endpoint
                      = <<"data_exports", last.args.export_id, "download">>
    /\ DownloadTooEarly =>
          /\ ServiceFailed
          /\ last.service.status_code = last.response.status_code
          /\ "message" \in DOMAIN last.service
          /\ DOMAIN last.service
                \cap {"file_content", "file_content_base64", "file_path"} = {}

C22_Witness ==
    /\ DownloadTooEarly
    /\ last.op = "download_export"
    /\ phase[last.args.export_id] = "running"
    /\ last.args.save_to_path = ExportDir
    /\ last.response = InProgress
    /\ last.service.status_code = 503

\* a service call of the export package that sent its request
ServiceCallSent ==
    /\ last.op \in {"create_export", "get_data_export", "download_export",
                    "download_data_export"}
    /\ last.sent # <<>>

\* the tenant CRN the validation resolves the caller's argument to
ResolvedCrn(crn) == IF crn = None THEN DefaultCrn ELSE crn

(***************************************************************************)
(* C24: every remote request issued by create_export, get_export and       *)
(* download_export carries a crn query parameter, and its value is the     *)
(* tenant CRN the session/tenant validation resolved for that call, not    *)
(* the raw caller argument.                                                *)
(***************************************************************************)
C24_CrnOnEveryRequest ==
    ServiceCallSent =>
        \A i \in 1..Len(last.sent) :
            /\ "crn" \in DOMAIN last.sent[i].params
            /\ last.sent[i].params.crn = ResolvedCrn(last.args.crn)
            /\ last.sent[i].params.crn \notin {None, BadCrn}

C24_Witness ==
    /\ ServiceCallSent
    /\ last.op = "download_export"
    /\ last.args.crn = None
    /\ last.sent[1].params.crn = DefaultCrn

(***************************************************************************)
(* C29: for every input create_export accepts, the body it sends has       *)
(* export_type "entity" or "record", search_criteria.search_type equal to  *)
(* export_type, and a single filter whose type equals export_type and      *)
(* whose values are ["creditentity"] for entity and ["creditrecord"] for   *)
(* record.                                                                 *)
(***************************************************************************)
C29_BodyConsistent ==
    last.op \in {"create_export", "create_data_export"} =>
        \A i \in 1..Len(last.sent) :
            LET body == last.sent[i].body
                criteria == body.search_criteria
            IN /\ body.export_type \in {Entity, Record}
               /\ criteria.search_type = body.export_type
               /\ Len(criteria.filters) = 1
               /\ criteria.filters[1].type = body.export_type
               /\ criteria.filters[1].values =
                     IF body.export_type = Entity THEN <<"creditentity">>
                     ELSE <<"creditrecord">>

C29_Witness ==
    /\ last.op = "create_export"
    /\ last.args.export_type = <<"R", "E", "C", "O", "R", "D">>
    /\ Len(last.sent) = 1
    /\ last.sent[1].body.export_type = Record
    /\ last.sent[1].body.search_criteria.filters[1].values = <<"creditrecord">>

\* the remote reports the job of this status query as it is: the status is
\* the job's phase and no field of the descriptor is left out
FaithfulReport ==
    /\ GetCall
    /\ last.args.export_id \in JobIds
    /\ Observed
    /\ Descriptor = JobDescriptor(last.args.export_id,
                                  phase[last.args.export_id], "phase", {})

ReturnedExportFailed == ErrorResult /\ ResultFields.error = "ExportFailed"

\* no step takes a job out of the phase it has once the phase is terminal,
\* and the client's calls change the phase of no job the remote already has
PhasesKept ==
    \A j \in JobIds :
        /\ phase[j] \in SuccessClass \cup FailureClass => phase'[j] = phase[j]
        /\ (last' # last /\ phase[j] # NoJob) => phase'[j] = phase[j]

C23_PollByObservedStatus ==
    (GetCall /\ polls \in 0..MaxPolls) =>
        /\ ObservedStatusIn(RunningClass) =>
              /\ ErrorResult
              /\ ResultFields.error = "ExportNotReady"
              /\ ResultFields.status_code = 202
        /\ ObservedStatusIn({"succeeded"}) =>
              /\ ReturnedModel("GetDataExportResponse")
              /\ \A k \in DOMAIN Descriptor : ResultFields[k] = Descriptor[k]

\* the manual script runs poll_export_status on its own
Poller == script.fn = "poll_export_status"

Queries == Len(script.trace)

\* ceil(a / b) for positive b
Ceil(a, b) == (a + b - 1) \div b

\* what makes the loop return at once: an error dict or a terminal status
Stopping(query) ==
    query.seen = PollError \/ query.seen \in {"succeeded", "failed", "canceled"}

PollerSafe ==
    /\ Queries <= Ceil(script.max_wait_seconds, script.poll_interval)
    /\ \A i \in 1..(Queries - 1) : ~Stopping(script.trace[i])
    /\ (Queries > 0 /\ Stopping(script.trace[Queries])) => script.pc = "done"
    /\ script.pc = "done" =>
          /\ Queries > 0
          /\ script.ret = IF script.trace[Queries].seen = PollError THEN None
                          ELSE script.trace[Queries].seen
          /\ \/ Stopping(script.trace[Queries])
             \/ Queries = Ceil(script.max_wait_seconds, script.poll_interval)

(***************************************************************************)
(* C27: for max_wait_seconds > 0 and poll_interval >= 1, poll_export_status *)
(* returns, having made at most ceil(max_wait_seconds / poll_interval)     *)
(* status queries: no query before the last one returned an error or       *)
(* observed succeeded, failed or canceled; after such a query the loop     *)
(* returns at once, None for an error and the status otherwise; without    *)
(* one it makes all ceil(max_wait_seconds / poll_interval) queries and     *)
(* returns the status the last one observed.                               *)
(***************************************************************************)
C27_PollTerminates ==
    /\ [](Poller => PollerSafe)
    /\ (Poller ~> (Poller /\ script.pc = "done"))

\* the loop ran out of time: two queries for 3 seconds at interval 2, the
\* last observing a job still running
C27_Witness ==
    /\ Poller
    /\ script.pc = "done"
    /\ script.max_wait_seconds = 3
    /\ script.poll_interval = 2
    /\ Queries = 2
    /\ script.trace[2].seen = "running"
    /\ script.ret = "running"

\* the manual script runs test_full_workflow
Workflow == script.fn = "test_full_workflow"

\* the last status query of the script was for `export_id` and observed
\* succeeded
PolledSucceeded(export_id) ==
    /\ Queries > 0
    /\ script.trace[Queries] = Query(export_id, "succeeded")

Finished(t) == threads[t].pc = "done"

\* the dict the service call of this invocation returns when the invocation
\* runs alone and the remote gives the same answer
AloneResult(th) ==
    CASE th.tool = "get_data_export" -> get_export(th.export_id, th.crn, th.response)
      [] th.tool = "download_data_export" ->
            download_export(th.export_id, th.crn, None, TRUE, th.response, TRUE)
      [] OTHER -> create_data_export_service(DefaultCreateRequest, NoResponse)

\* the job ids a returned model names in its own fields
NamedJobs(outcome) ==
    IF outcome.raised THEN {}
    ELSE {outcome.value.fields[f] :
              f \in {"job_id", "export_id", "file_name"} \cap DOMAIN outcome.value.fields}

HasService(t) == threads[t].pc \in {"call", "respond", "done"}

(***************************************************************************)
(* C30: over any sequence of tool invocations, overlapping first ones      *)
(* included, at most one DataExportService is constructed and every        *)
(* invocation uses that instance; the instance reference is the only       *)
(* client-side state a tool call changes (no file is written).             *)
(***************************************************************************)
C30_OneInstance ==
    /\ constructed <= 1
    /\ \A t \in ThreadIds : HasService(t) => threads[t].service = InstanceNames[1]
    /\ disk = {}

====
